---- MODULE Spec2Model ----
(***************************************************************************)
(* Wagner-Whitin dynamic lot sizing, class WagnerWhitin of                 *)
(* MCP361_2021ME21063_Assignment3_Problem1.py (the same class is repeated  *)
(* verbatim in Assignment3_Problem2.py).                                   *)
(*                                                                         *)
(* One object is modelled.  Its fields are the variables demand,           *)
(* setup_cost, holding_cost, N, Z, j and table; the locals of the two      *)
(* methods are t, k, min_cost (compute_optimal_schedule) and schedule, wt  *)
(* (get_production_schedule, whose local is also called t in the source).  *)
(* pending is the set of candidate starts not yet evaluated when the inner *)
(* loop is scanned in an arbitrary order (SpecAnyOrder); main is the frame *)
(* of the interactive entry point (SpecMain).                              *)
(* The variables are the object that is executing; a second object, used   *)
(* by the two-object specification SpecPair, rests in the record peer.     *)
(* Python lists and numpy arrays are 0-indexed functions, as in the code.  *)
(* Numbers are integers: on the small integral inputs explored here the    *)
(* float64 arithmetic of the code is exact.                                *)
(***************************************************************************)
EXTENDS Integers, FiniteSets, Sequences, TLC

VARIABLES demand, setup_cost, holding_cost, N, Z, j, table,
          pc, t, k, min_cost, schedule, wt, visited, computed, peer,
          pending, main

vars == <<demand, setup_cost, holding_cost, N, Z, j, table,
          pc, t, k, min_cost, schedule, wt, visited, computed, peer,
          pending, main>>

fields == <<demand, setup_cost, holding_cost, N>>

(* ---------------------------- bounds ----------------------------------- *)
MaxN == 3
MaxDemand == 2
MaxSetup == 3
MaxHold == 2

(* float('inf') / np.inf: larger than every cost the bounded inputs give.  *)
Inf == 1000000

DemandVals == -1..MaxDemand
SetupVals == -1..MaxSetup
HoldVals == -1..MaxHold

(* The worked example: demand [10, 10, 10], setup cost 50, holding rate 1.  *)
Scenario == <<[i \in 0..2 |-> 10], 50, 1>>

(* The argument triples with which the constructor is called.              *)
Inputs ==
    { <<d, s, h>> : d \in UNION { [0..(n - 1) -> DemandVals] : n \in 0..MaxN },
                    s \in SetupVals, h \in HoldVals }
    \cup { Scenario }

(* ------------------------- pure helpers -------------------------------- *)
(* sum(f[i] for i in range(a, b))                                          *)
RECURSIVE SumRange(_, _, _)
SumRange(f, a, b) == IF a >= b THEN 0 ELSE f[a] + SumRange(f, a + 1, b)

(* Python's normalisation of one bound of a slice of a list of length n.   *)
PyBound(a, n) ==
    LET b == IF a < 0 THEN a + n ELSE a
    IN  IF b < 0 THEN 0 ELSE IF b > n THEN n ELSE b

(* sum(lst[a:b]) for a list of length n                                    *)
SumSliceMut(lst, a, b, n) == SumRange(lst, PyBound(a, n), PyBound(b - 1, n))

SumSlice(lst, a, b, n) == SumRange(lst, PyBound(a, n), PyBound(b, n))

(* Python's index normalisation lst[i] (i in -n..n-1).                     *)
PyIndex(i, n) == IF i < 0 THEN i + n ELSE i

(* sum((i - k) * self.demand[i - 1] for i in range(k, t + 1))              *)
RECURSIVE HoldingUnitsMut(_, _, _)
HoldingUnitsMut(kk, tt, i) ==
    IF i > tt THEN 0
    ELSE (kk - i) * demand[i - 1] + HoldingUnitsMut(kk, tt, i + 1)

RECURSIVE HoldingUnitsOffMut(_, _, _)
HoldingUnitsOffMut(kk, tt, i) ==
    IF i > tt THEN 0
    ELSE (i - kk + 1) * demand[i - 1] + HoldingUnitsOffMut(kk, tt, i + 1)

RECURSIVE HoldingUnits(_, _, _)
HoldingUnits(kk, tt, i) ==
    IF i > tt THEN 0
    ELSE (i - kk) * demand[i - 1] + HoldingUnits(kk, tt, i + 1)

(* cost = self.Z[k-1] + self.setup_cost + self.holding_cost * sum(...)     *)
CostMut(kk, tt) ==
    Z[kk] + setup_cost + holding_cost * HoldingUnits(kk, tt, kk)

CostSubMut(kk, tt) ==
    Z[kk - 1] + setup_cost - holding_cost * HoldingUnits(kk, tt, kk)

Cost(kk, tt) ==
    Z[kk - 1] + setup_cost + holding_cost * HoldingUnits(kk, tt, kk)

(* if cost < min_cost                                                      *)
IsLowerMut(cost, m) == cost <= m

IsLower(cost, m) == cost < m

(* ------------------------------ Init ----------------------------------- *)
(* A second WagnerWhitin object, when there is one, is held in peer while  *)
(* it is not the one executing; NoPeer stands for "no second object".      *)
NoPeer == [pc |-> "absent"]

(* The frame of the entry point main, when the object is driven by it;     *)
(* NoMain stands for "the methods are called directly".                    *)
NoMain == [pc |-> "absent"]

Callable == pc \in {"idle", "computed", "returned"}

Init ==
    \E in \in Inputs :
        /\ demand = in[1]
        /\ setup_cost = in[2]
        /\ holding_cost = in[3]
        /\ N = Cardinality(DOMAIN in[1])
        /\ Z = [i \in 0..Cardinality(DOMAIN in[1]) |-> 0]
        /\ j = [i \in 0..Cardinality(DOMAIN in[1]) |-> 0]
        /\ table = [c \in (0..(Cardinality(DOMAIN in[1]) - 1))
                          \X (0..(Cardinality(DOMAIN in[1]) - 1)) |-> Inf]
        /\ pc = "idle"
        /\ t = 0
        /\ k = 0
        /\ min_cost = Inf
        /\ schedule = << >>
        /\ wt = 0
        /\ visited = << >>
        /\ computed = FALSE
        /\ peer = NoPeer
        /\ pending = {}
        /\ main = NoMain

(* -------------------- compute_optimal_schedule ------------------------- *)
(* The call: the outer range(1, N + 1) starts at 1.                        *)
ComputeCall ==
    /\ Callable
    /\ pc' = "for_t"
    /\ t' = 1
    /\ UNCHANGED <<peer, pending, main, fields, Z, j, table, k, min_cost, schedule, wt, visited, computed>>

(* for t in range(1, N + 1): min_cost = float('inf'); inner range starts.  *)
ForTBodyMut ==
    /\ pc = "for_t"
    /\ t <= N
    /\ min_cost' = 0
    /\ k' = 1
    /\ pc' = "for_k"
    /\ UNCHANGED <<peer, pending, main, fields, Z, j, table, t, schedule, wt, visited, computed>>

ForTBody ==
    /\ pc = "for_t"
    /\ t <= N
    /\ min_cost' = Inf
    /\ k' = 1
    /\ pc' = "for_k"
    /\ UNCHANGED <<peer, pending, main, fields, Z, j, table, t, schedule, wt, visited, computed>>

(* One iteration of for k in range(1, t + 1).                              *)
ForKBodyMut ==
    /\ pc = "for_k"
    /\ k <= t
    /\ LET cost == Cost(k, t)
       IN  /\ table' = [table EXCEPT ![<<k - 1, t - 1>>] = cost]
           /\ IF IsLower(cost, min_cost)
              THEN /\ min_cost' = cost
                   /\ j' = [j EXCEPT ![t] = k - 1]
              ELSE UNCHANGED <<min_cost, j>>
    /\ k' = k + 1
    /\ UNCHANGED <<peer, pending, main, fields, Z, pc, t, schedule, wt, visited, computed>>

ForKBodyTransposedMut ==
    /\ pc = "for_k"
    /\ k <= t
    /\ LET cost == Cost(k, t)
       IN  /\ table' = [table EXCEPT ![<<t - 1, k - 1>>] = cost]
           /\ IF IsLower(cost, min_cost)
              THEN /\ min_cost' = cost
                   /\ j' = [j EXCEPT ![t] = k]
              ELSE UNCHANGED <<min_cost, j>>
    /\ k' = k + 1
    /\ UNCHANGED <<peer, pending, main, fields, Z, pc, t, schedule, wt, visited, computed>>

ForKBodySwapMut ==
    /\ pc = "for_k"
    /\ k <= t
    /\ LET cost == Cost(k, t)
       IN  /\ table' = [table EXCEPT ![<<k - 1, t - 1>>] = cost]
           /\ IF IsLower(cost, min_cost)
              THEN /\ min_cost' = cost
                   /\ j' = [j EXCEPT ![k] = t]
              ELSE UNCHANGED <<min_cost, j>>
    /\ k' = k + 1
    /\ UNCHANGED <<peer, pending, main, fields, Z, pc, t, schedule, wt, visited, computed>>

ForKBody ==
    /\ pc = "for_k"
    /\ k <= t
    /\ LET cost == Cost(k, t)
       IN  /\ table' = [table EXCEPT ![<<k - 1, t - 1>>] = cost]
           /\ IF IsLower(cost, min_cost)
              THEN /\ min_cost' = cost
                   /\ j' = [j EXCEPT ![t] = k]
              ELSE UNCHANGED <<min_cost, j>>
    /\ k' = k + 1
    /\ UNCHANGED <<peer, pending, main, fields, Z, pc, t, schedule, wt, visited, computed>>

(* The inner loop is exhausted: self.Z[t] = min_cost, next t.              *)
ForKExitMut ==
    /\ pc = "for_k"
    /\ k > t
    /\ Z' = [Z EXCEPT ![t] = Cost(t, t)]
    /\ t' = t + 1
    /\ pc' = "for_t"
    /\ UNCHANGED <<peer, pending, main, fields, j, table, k, min_cost, schedule, wt, visited, computed>>

ForKExitIndexMut ==
    /\ pc = "for_k"
    /\ k > t
    /\ Z' = [Z EXCEPT ![t - 1] = min_cost]
    /\ t' = t + 1
    /\ pc' = "for_t"
    /\ UNCHANGED <<peer, pending, main, fields, j, table, k, min_cost, schedule, wt, visited, computed>>

ForKExitAccumMut ==
    /\ pc = "for_k"
    /\ k > t
    /\ Z' = [Z EXCEPT ![t] = Z[t] + min_cost]
    /\ t' = t + 1
    /\ pc' = "for_t"
    /\ UNCHANGED <<peer, pending, main, fields, j, table, k, min_cost, schedule, wt, visited, computed>>

ForKExit ==
    /\ pc = "for_k"
    /\ k > t
    /\ Z' = [Z EXCEPT ![t] = min_cost]
    /\ t' = t + 1
    /\ pc' = "for_t"
    /\ UNCHANGED <<peer, pending, main, fields, j, table, k, min_cost, schedule, wt, visited, computed>>

(* The outer loop is exhausted: the method returns, its locals die.        *)
ComputeReturn ==
    /\ pc = "for_t"
    /\ t > N
    /\ pc' = "computed"
    /\ computed' = TRUE
    /\ t' = 0
    /\ k' = 0
    /\ min_cost' = Inf
    /\ UNCHANGED <<peer, pending, main, fields, Z, j, table, schedule, wt, visited>>

(* --------------------- get_production_schedule ------------------------- *)
(* schedule = [0] * self.N; t = self.N                                     *)
GetCallMut ==
    /\ Callable
    /\ schedule' = IF DOMAIN schedule = 0..(N - 1) THEN schedule
                   ELSE [i \in 0..(N - 1) |-> 0]
    /\ wt' = N
    /\ visited' = << >>
    /\ pc' = "while"
    /\ UNCHANGED <<peer, pending, main, fields, Z, j, table, t, k, min_cost, computed>>

GetCall ==
    /\ Callable
    /\ schedule' = [i \in 0..(N - 1) |-> 0]
    /\ wt' = N
    /\ visited' = << >>
    /\ pc' = "while"
    /\ UNCHANGED <<peer, pending, main, fields, Z, j, table, t, k, min_cost, computed>>

(* One iteration of while t > 0; visited records the interval [k..t].      *)
WhileBodyMut ==
    /\ pc = "while"
    /\ wt > 0
    /\ LET kk == j[wt]
       IN  /\ schedule' = [schedule EXCEPT ![PyIndex(kk - 1, N)] =
                                SumSlice(demand, kk - 1, wt, N)]
           /\ visited' = Append(visited, <<kk, wt>>)
           /\ wt' = wt - 1
    /\ UNCHANGED <<peer, pending, main, fields, Z, j, table, pc, t, k, min_cost, computed>>

WhileBodyDemandMut ==
    /\ pc = "while"
    /\ wt > 0
    /\ LET kk == j[wt]
       IN  /\ schedule' = [schedule EXCEPT ![PyIndex(kk - 1, N)] =
                                SumSlice(demand, kk - 1, wt, N)]
           /\ demand' = [demand EXCEPT ![PyIndex(kk - 1, N)] =
                                SumSlice(demand, kk - 1, wt, N)]
           /\ visited' = Append(visited, <<kk, wt>>)
           /\ wt' = kk - 1
    /\ UNCHANGED <<peer, pending, main, setup_cost, holding_cost, N, Z, j, table, pc, t, k, min_cost, computed>>

WhileBodyEndMut ==
    /\ pc = "while"
    /\ wt > 0
    /\ LET kk == j[wt]
       IN  /\ schedule' = [schedule EXCEPT ![PyIndex(wt - 1, N)] =
                                SumSlice(demand, kk - 1, wt, N)]
           /\ visited' = Append(visited, <<kk, wt>>)
           /\ wt' = kk - 1
    /\ UNCHANGED <<peer, pending, main, fields, Z, j, table, pc, t, k, min_cost, computed>>

WhileBodyConsumeMut ==
    /\ pc = "while"
    /\ wt > 0
    /\ LET kk == j[wt]
       IN  /\ schedule' = [schedule EXCEPT ![PyIndex(kk - 1, N)] =
                                SumSlice(demand, kk - 1, wt, N)]
           /\ visited' = Append(visited, <<kk, wt>>)
           /\ j' = [j EXCEPT ![wt] = 0]
           /\ wt' = kk - 1
    /\ UNCHANGED <<peer, pending, main, fields, Z, table, pc, t, k, min_cost, computed>>

WhileBody ==
    /\ pc = "while"
    /\ wt > 0
    /\ LET kk == j[wt]
       IN  /\ schedule' = [schedule EXCEPT ![PyIndex(kk - 1, N)] =
                                SumSlice(demand, kk - 1, wt, N)]
           /\ visited' = Append(visited, <<kk, wt>>)
           /\ wt' = kk - 1
    /\ UNCHANGED <<peer, pending, main, fields, Z, j, table, pc, t, k, min_cost, computed>>

(* return schedule                                                         *)
GetReturn ==
    /\ pc = "while"
    /\ ~(wt > 0)
    /\ pc' = "returned"
    /\ UNCHANGED <<peer, pending, main, fields, Z, j, table, t, k, min_cost, schedule, wt, visited, computed>>

Next ==
    \/ ComputeCall
    \/ ForTBody
    \/ ForKBody
    \/ ForKExit
    \/ ComputeReturn
    \/ GetCall
    \/ WhileBody
    \/ GetReturn

Spec == Init /\ [][Next]_vars

(* A call of get_production_schedule, once made, runs on: the interpreter  *)
(* keeps executing the loop and the return of the method it is in.         *)
SpecFair == Init /\ [][Next]_vars /\ WF_vars(WhileBody) /\ WF_vars(GetReturn)

(* ------------------------- two objects --------------------------------- *)
MaxPairN == 2
MaxPairVal == 1

(* Valid constructor arguments for the two-object runs.                    *)
PairInputs ==
    { <<d, s, h>> : d \in UNION { [0..(n - 1) -> 0..MaxPairVal] : n \in 1..MaxPairN },
                    s \in 0..MaxPairVal, h \in 0..MaxPairVal }

(* The arguments given to the second object when they differ from the      *)
(* first object's: the longest horizon, the largest demand in each period. *)
PeerInputs ==
    { <<[i \in 0..(MaxPairN - 1) |-> MaxPairVal], MaxPairVal, h>> : h \in 0..MaxPairVal }

(* The object WagnerWhitin(in[1], in[2], in[3]) right after construction.  *)
Fresh(in) ==
    LET n == Cardinality(DOMAIN in[1])
    IN  [demand |-> in[1], setup_cost |-> in[2], holding_cost |-> in[3],
         N |-> n,
         Z |-> [i \in 0..n |-> 0],
         j |-> [i \in 0..n |-> 0],
         table |-> [c \in (0..(n - 1)) \X (0..(n - 1)) |-> Inf],
         pc |-> "idle", t |-> 0, k |-> 0, min_cost |-> Inf,
         schedule |-> << >>, wt |-> 0, visited |-> << >>, computed |-> FALSE]

(* The executing object as a record.                                       *)
Self ==
    [demand |-> demand, setup_cost |-> setup_cost, holding_cost |-> holding_cost,
     N |-> N, Z |-> Z, j |-> j, table |-> table,
     pc |-> pc, t |-> t, k |-> k, min_cost |-> min_cost,
     schedule |-> schedule, wt |-> wt, visited |-> visited, computed |-> computed]

(* Two objects are constructed, or one alone.                              *)
InitPair ==
    \E a \in PairInputs : \E b \in PeerInputs \cup {a} :
        /\ demand = Fresh(a).demand
        /\ setup_cost = Fresh(a).setup_cost
        /\ holding_cost = Fresh(a).holding_cost
        /\ N = Fresh(a).N
        /\ Z = Fresh(a).Z
        /\ j = Fresh(a).j
        /\ table = Fresh(a).table
        /\ pc = Fresh(a).pc
        /\ t = Fresh(a).t
        /\ k = Fresh(a).k
        /\ min_cost = Fresh(a).min_cost
        /\ schedule = Fresh(a).schedule
        /\ wt = Fresh(a).wt
        /\ visited = Fresh(a).visited
        /\ computed = Fresh(a).computed
        /\ peer \in {Fresh(b), NoPeer}
        /\ pending = {}
        /\ main = NoMain

(* The scheduler passes control to the other object: the executing object  *)
(* is put to rest with all it owns, the resting one resumes where it was.  *)
(* Every field and every local belongs to one object; nothing is shared.   *)
SwitchSharedJMut ==
    /\ peer # NoPeer
    /\ demand' = peer.demand
    /\ setup_cost' = peer.setup_cost
    /\ holding_cost' = peer.holding_cost
    /\ N' = peer.N
    /\ Z' = peer.Z
    /\ j' = IF DOMAIN peer.j = DOMAIN j THEN j ELSE peer.j
    /\ table' = peer.table
    /\ pc' = peer.pc
    /\ t' = peer.t
    /\ k' = peer.k
    /\ min_cost' = peer.min_cost
    /\ schedule' = peer.schedule
    /\ wt' = peer.wt
    /\ visited' = peer.visited
    /\ computed' = peer.computed
    /\ peer' = Self
    /\ UNCHANGED <<pending, main>>

SwitchSharedZMut ==
    /\ peer # NoPeer
    /\ demand' = peer.demand
    /\ setup_cost' = peer.setup_cost
    /\ holding_cost' = peer.holding_cost
    /\ N' = peer.N
    /\ Z' = IF DOMAIN peer.Z = DOMAIN Z THEN Z ELSE peer.Z
    /\ j' = peer.j
    /\ table' = peer.table
    /\ pc' = peer.pc
    /\ t' = peer.t
    /\ k' = peer.k
    /\ min_cost' = peer.min_cost
    /\ schedule' = peer.schedule
    /\ wt' = peer.wt
    /\ visited' = peer.visited
    /\ computed' = peer.computed
    /\ peer' = Self
    /\ UNCHANGED <<pending, main>>

Switch ==
    /\ peer # NoPeer
    /\ demand' = peer.demand
    /\ setup_cost' = peer.setup_cost
    /\ holding_cost' = peer.holding_cost
    /\ N' = peer.N
    /\ Z' = peer.Z
    /\ j' = peer.j
    /\ table' = peer.table
    /\ pc' = peer.pc
    /\ t' = peer.t
    /\ k' = peer.k
    /\ min_cost' = peer.min_cost
    /\ schedule' = peer.schedule
    /\ wt' = peer.wt
    /\ visited' = peer.visited
    /\ computed' = peer.computed
    /\ peer' = Self
    /\ UNCHANGED <<pending, main>>

(* Each object is driven as main drives it: compute_optimal_schedule once, *)
(* then get_production_schedule once; the steps of the two interleave.     *)
PairNext ==
    \/ (pc = "idle" /\ ComputeCall)
    \/ ForTBody
    \/ ForKBody
    \/ ForKExit
    \/ ComputeReturn
    \/ (pc = "computed" /\ GetCall)
    \/ WhileBody
    \/ GetReturn
    \/ Switch

SpecPair == InitPair /\ [][PairNext]_vars

(* --------------------------- vocabulary -------------------------------- *)
(* The precondition of the cost table builder: N >= 1, nothing negative.   *)
ValidInput ==
    /\ N >= 1
    /\ \A i \in 0..(N - 1) : demand[i] >= 0
    /\ setup_cost >= 0
    /\ holding_cost >= 0

IsScenario == <<demand, setup_cost, holding_cost>> = Scenario

TypeOK ==
    /\ pc \in {"idle", "for_t", "for_k", "computed", "while", "returned"}
    /\ N = Cardinality(DOMAIN demand)
    /\ DOMAIN Z = 0..N
    /\ DOMAIN j = 0..N
    /\ computed \in BOOLEAN

AfterCompute == pc = "computed" /\ ValidInput

AfterGet == pc = "returned" /\ computed /\ ValidInput

(* The smallest element of a non-empty set of integers.                    *)
SetMin(S) == CHOOSE m \in S : \A x \in S : m <= x

(* The start of the interval that holds period i, for a set B of starts.   *)
StartOf(B, i) == CHOOSE b \in B : b <= i /\ \A c \in B : c <= i => c <= b

(* Holding units of periods i..tt when the orders are placed at B.         *)
RECURSIVE PlanHolding(_, _, _)
PlanHolding(B, tt, i) ==
    IF i > tt THEN 0
    ELSE (i - StartOf(B, i)) * demand[i - 1] + PlanHolding(B, tt, i + 1)

(* Cost of serving periods 1..tt with one order at every period of B.      *)
PlanCost(B, tt) ==
    setup_cost * Cardinality(B) + holding_cost * PlanHolding(B, tt, 1)

(* The partitions of 1..tt into contiguous intervals, as sets of starts.   *)
Plans(tt) == { B \in SUBSET (1..tt) : 1 \in B }

(* C1: after compute_optimal_schedule on a valid input, Z[t] is, for every *)
(* t in 1..N, the least cost over all partitions of 1..t into contiguous   *)
(* intervals, each interval [k..e] costing S + H * sum (i-k)*demand[i];    *)
(* Z[N] is that minimum for the whole horizon.                             *)
C1_ZIsMinimumOverPartitions ==
    AfterCompute =>
        \A tt \in 1..N : Z[tt] = SetMin({ PlanCost(B, tt) : B \in Plans(tt) })

C1_Witness ==
    /\ AfterCompute
    /\ N = MaxN
    /\ holding_cost > 0
    /\ setup_cost > 0
    /\ Z[N] < N * setup_cost
    /\ Z[N] > setup_cost

(* C2: after compute_optimal_schedule on a valid input, the quantities of  *)
(* the schedule returned by get_production_schedule add up to the demand.  *)
C2_Conservation ==
    AfterGet => SumRange(schedule, 0, N) = SumRange(demand, 0, N)

C2_Witness ==
    /\ AfterGet
    /\ Len(visited) >= 2
    /\ \A i \in 0..(N - 1) : demand[i] > 0

(* The periods of the i-th interval visited by the backward walk.          *)
Interval(i) == visited[i][1]..visited[i][2]

(* C3: the intervals [j[t]..t] visited by the backward walk partition      *)
(* 1..N: every period lies in exactly one of them, every one of them is a  *)
(* non-empty part of 1..N, and the last one visited starts at period 1.    *)
C3_WalkPartitions ==
    AfterGet =>
        /\ Len(visited) >= 1
        /\ \A i \in 1..Len(visited) :
              Interval(i) # {} /\ Interval(i) \subseteq 1..N
        /\ \A p \in 1..N :
              Cardinality({ i \in 1..Len(visited) : p \in Interval(i) }) = 1
        /\ visited[1][2] = N
        /\ \A i \in 1..(Len(visited) - 1) : visited[i + 1][2] = visited[i][1] - 1
        /\ visited[Len(visited)][1] = 1

C3_Witness ==
    /\ AfterGet
    /\ N = MaxN
    /\ Len(visited) = 2

(* C4: after compute_optimal_schedule on a valid input, 1 <= j[t] <= t for *)
(* every t in 1..N, and the unused entry j[0] is still 0.                  *)
C4_PredecessorRange ==
    AfterCompute => j[0] = 0 /\ \A tt \in 1..N : 1 <= j[tt] /\ j[tt] <= tt

C4_Witness ==
    /\ AfterCompute
    /\ N = MaxN
    /\ j[N] = N
    /\ j[N - 1] = 1

(* C5: Z[t] is the least cost(k,t) over k in 1..t and j[t] is the smallest *)
(* k that attains it: a later k of equal cost never replaces an earlier.   *)
C5_EarliestMinimum ==
    AfterCompute =>
        \A tt \in 1..N :
            /\ j[tt] \in 1..tt
            /\ Z[tt] = Cost(j[tt], tt)
            /\ \A kk \in 1..tt : Z[tt] <= Cost(kk, tt)
            /\ \A kk \in 1..(j[tt] - 1) : Z[tt] < Cost(kk, tt)

(* A tie at the minimum between two candidate starts.                      *)
C5_Witness ==
    /\ AfterCompute
    /\ \E tt \in 1..N : \E kk \in 1..tt :
          kk > j[tt] /\ Cost(kk, tt) = Z[tt]

(* C6: Z[t] <= Z[t+1] for every t in 0..N-1.                               *)
C6_Monotonicity ==
    AfterCompute => \A tt \in 0..(N - 1) : Z[tt] <= Z[tt + 1]

C6_Witness ==
    /\ AfterCompute
    /\ N = MaxN
    /\ \A tt \in 0..(N - 1) : Z[tt] < Z[tt + 1]

(* C7 as stated: on demand [10,10,10], setup 50, holding rate 1 the        *)
(* minimal-cost array is Z = [0, 50, 70, 100].                             *)
C7_Original ==
    (IsScenario /\ pc = "computed") =>
        Z = [i \in 0..3 |-> IF i = 0 THEN 0 ELSE IF i = 1 THEN 50
                            ELSE IF i = 2 THEN 70 ELSE 100]

(* C7, amended: on demand [10,10,10], setup 50, holding rate 1             *)
(* compute_optimal_schedule produces Z = [0, 50, 60, 80].                  *)
C7_ScenarioZ ==
    (IsScenario /\ pc = "computed") =>
        Z = [i \in 0..3 |-> IF i = 0 THEN 0 ELSE IF i = 1 THEN 50
                            ELSE IF i = 2 THEN 60 ELSE 80]

C7_Witness == IsScenario /\ pc = "computed" /\ Z[3] # 0

(* C8: on the same scenario the builder selects the single order at        *)
(* period 1: j[3] = 1, total cost Z[3] = 80 (not the 150 of ordering every *)
(* period), and the returned quantities are [30, 0, 0].                    *)
C8_ScenarioPlan ==
    /\ (IsScenario /\ pc = "computed") => j[3] = 1 /\ Z[3] = 80
    /\ (IsScenario /\ pc = "returned" /\ computed) =>
          /\ j[3] = 1
          /\ Z[3] = 80
          /\ schedule = [i \in 0..2 |-> IF i = 0 THEN 30 ELSE 0]
          /\ PlanCost({1}, 3) = 80
          /\ PlanCost({1, 2, 3}, 3) = 150

C8_Witness == IsScenario /\ pc = "returned" /\ computed /\ visited = << <<1, 3>> >>

(* C9: for N = 1 and any demand d >= 0, S >= 0, H >= 0: j[1] = 1, the      *)
(* total cost Z[1] is the setup cost, and the schedule is the one          *)
(* quantity d at period 1.                                                 *)
C9_SinglePeriod ==
    /\ (AfterCompute /\ N = 1) => j[1] = 1 /\ Z[1] = setup_cost
    /\ (AfterGet /\ N = 1) =>
          /\ j[1] = 1
          /\ Z[1] = setup_cost
          /\ schedule = [i \in 0..0 |-> demand[0]]

C9_Witness ==
    AfterGet /\ N = 1 /\ demand[0] > 0 /\ holding_cost > 0 /\ schedule[0] > 0

(* C10: with holding_cost_rate = 0, for every valid demand and every       *)
(* S >= 0 (S = 0 included): j[t] = 1 for all t, total cost Z[N] is the     *)
(* setup cost, and the schedule is the whole demand at period 1 and 0 at   *)
(* every other period.                                                     *)
C10_ZeroHolding ==
    /\ (AfterCompute /\ holding_cost = 0) =>
          /\ \A tt \in 1..N : j[tt] = 1
          /\ Z[N] = setup_cost
    /\ (AfterGet /\ holding_cost = 0) =>
          /\ \A tt \in 1..N : j[tt] = 1
          /\ Z[N] = setup_cost
          /\ schedule = [i \in 0..(N - 1) |->
                            IF i = 0 THEN SumRange(demand, 0, N) ELSE 0]

C10_Witness ==
    /\ AfterGet
    /\ holding_cost = 0
    /\ setup_cost = 0
    /\ N = MaxN
    /\ demand[N - 1] > 0

(* The cost-table positions, 0-indexed as in the code: row k-1, column t-1. *)
Cells == (0..(N - 1)) \X (0..(N - 1))

(* C12: in every state, every table position (k, t) with k > t holds the   *)
(* sentinel infinity; once compute_optimal_schedule has completed, every   *)
(* position with k <= t holds a finite cost.                               *)
C12_TableSentinel ==
    /\ DOMAIN table = Cells
    /\ \A c \in Cells : c[1] > c[2] => table[c] = Inf
    /\ computed => \A c \in Cells : c[1] <= c[2] => table[c] # Inf

C12_Witness ==
    /\ pc = "returned"
    /\ computed
    /\ N = MaxN
    /\ table[<<N - 1, 0>>] = Inf
    /\ table[<<0, N - 1>>] # Inf

(* C13 as stated: an empty demand sequence is rejected, so the solver      *)
(* never returns from compute_optimal_schedule or get_production_schedule  *)
(* with N = 0.                                                             *)
C13_EmptyDemandRejected ==
    N = 0 => pc \notin {"computed", "returned"}

(* C14 as stated: with a negative demand value, setup cost or holding rate *)
(* nothing is computed: no table entry is populated and Z and j keep their *)
(* initial values.                                                         *)
HasNegative ==
    \/ \E i \in 0..(N - 1) : demand[i] < 0
    \/ setup_cost < 0
    \/ holding_cost < 0

C14_NegativeRejected ==
    HasNegative =>
        /\ \A c \in Cells : table[c] = Inf
        /\ \A i \in 0..N : Z[i] = 0 /\ j[i] = 0

(* C15 as stated: get_production_schedule returns no schedule when some    *)
(* j[t], t in 1..N, lies outside 1..t (a fresh instance included).         *)
CorruptState == \E tt \in 1..N : ~(1 <= j[tt] /\ j[tt] <= tt)

C15_CorruptStateRejected ==
    CorruptState => pc # "returned"

(* The first periods of the intervals visited by the backward walk.        *)
VisitedStarts == { visited[i][1] : i \in 1..Len(visited) }

(* C17: get_production_schedule returns exactly N quantities; for every    *)
(* interval [k..e] visited by the walk the quantity at period k is the sum *)
(* of demand[k..e], and every period that starts no visited interval has   *)
(* quantity 0.                                                             *)
C17_ScheduleShape ==
    AfterGet =>
        /\ DOMAIN schedule = 0..(N - 1)
        /\ \A i \in 1..Len(visited) :
              schedule[visited[i][1] - 1] =
                  SumRange(demand, visited[i][1] - 1, visited[i][2])
        /\ \A p \in 1..N : p \notin VisitedStarts => schedule[p - 1] = 0

C17_Witness ==
    /\ AfterGet
    /\ N = MaxN
    /\ VisitedStarts = {1, N}
    /\ demand[1] > 0
    /\ demand[N - 1] > 0

AllZeroDemand == \A i \in 0..(N - 1) : demand[i] = 0

(* C18: all-zero demand of any length N >= 1 completes: every populated    *)
(* table entry (k, t) is Z[k-1] + S with no holding component, Z[t] = S    *)
(* and j[t] = 1 for every t in 1..N, and every returned quantity is 0.     *)
C18_AllZeroDemand ==
    /\ (AfterCompute /\ AllZeroDemand) =>
          /\ \A c \in Cells : c[1] <= c[2] => table[c] = Z[c[1]] + setup_cost
          /\ \A tt \in 1..N : Z[tt] = setup_cost /\ j[tt] = 1
    /\ (AfterGet /\ AllZeroDemand) =>
          /\ \A c \in Cells : c[1] <= c[2] => table[c] = Z[c[1]] + setup_cost
          /\ \A tt \in 1..N : Z[tt] = setup_cost /\ j[tt] = 1
          /\ schedule = [i \in 0..(N - 1) |-> 0]

C18_Witness ==
    /\ AfterGet
    /\ AllZeroDemand
    /\ N = MaxN
    /\ setup_cost > 0
    /\ holding_cost > 0

(* C19: after compute_optimal_schedule, for every k <= t in 1..N the table *)
(* entry (k, t) is Z[k-1] + S + H * sum_{i=k..t} (i-k)*demand[i] with the  *)
(* final Z; the diagonal entry (t, t) is Z[t-1] + S.                       *)
C19_TableEntries ==
    pc = "computed" =>
        /\ \A kk \in 1..N : \A tt \in kk..N :
              table[<<kk - 1, tt - 1>>] =
                  Z[kk - 1] + setup_cost + holding_cost * PlanHolding({kk}, tt, kk)
        /\ \A tt \in 1..N : table[<<tt - 1, tt - 1>>] = Z[tt - 1] + setup_cost

C19_Witness ==
    /\ AfterCompute
    /\ N = MaxN
    /\ holding_cost > 0
    /\ table[<<0, N - 1>>] > table[<<1, N - 1>>]
    /\ table[<<1, N - 1>>] > table[<<N - 1, N - 1>>]

(* C20: while compute_optimal_schedule processes ending period t, the      *)
(* next candidate reads Z[k-1] with k-1 in 0..t-1, and a step changes only *)
(* Z[t], j[t] and column t of the table: every other entry of Z, j and the *)
(* table is left as it was; Z[0] is 0 in every state.                      *)
C20_ReadsBelowT == (pc = "for_k" /\ k <= t) => (k - 1) \in 0..(t - 1)

C20_StepFrame ==
    pc \in {"for_t", "for_k"} =>
        /\ \A i \in 0..N : i # t => Z'[i] = Z[i] /\ j'[i] = j[i]
        /\ \A c \in Cells : c[2] # t - 1 => table'[c] = table[c]

C20_LeftToRight ==
    /\ [](Z[0] = 0)
    /\ []C20_ReadsBelowT
    /\ [][C20_StepFrame]_vars

C20_Witness ==
    /\ pc = "for_k"
    /\ t = MaxN
    /\ k = t
    /\ Z[t - 1] > 0
    /\ j[t] = t - 1

(* What one object computes when it runs alone, from its inputs only.      *)
ZAlone ==
    [tt \in 0..N |-> IF tt = 0 THEN 0
                     ELSE SetMin({ PlanCost(B, tt) : B \in Plans(tt) })]

CostAlone(kk, tt) ==
    ZAlone[kk - 1] + setup_cost + holding_cost * PlanHolding({kk}, tt, kk)

JAlone ==
    [tt \in 0..N |-> IF tt = 0 THEN 0
                     ELSE LET z == ZAlone[tt]
                          IN  SetMin({ kk \in 1..tt : CostAlone(kk, tt) = z })]

TableAlone ==
    [c \in Cells |-> IF c[1] > c[2] THEN Inf ELSE CostAlone(c[1] + 1, c[2] + 1)]

RECURSIVE WalkAlone(_, _)
WalkAlone(tt, sched) ==
    IF tt <= 0 THEN sched
    ELSE LET kk == JAlone[tt]
         IN  WalkAlone(kk - 1,
                       [sched EXCEPT ![kk - 1] = SumRange(demand, kk - 1, tt)])

ScheduleAlone == WalkAlone(N, [i \in 0..(N - 1) |-> 0])

BothReturned == peer # NoPeer /\ pc = "returned" /\ peer.pc = "returned"

SameInputs ==
    /\ peer.demand = demand
    /\ peer.setup_cost = setup_cost
    /\ peer.holding_cost = holding_cost

(* C11: two runs of the solver (construct, compute_optimal_schedule,       *)
(* get_production_schedule) on identical demand, setup cost and holding    *)
(* cost yield identical schedule, Z, j and cost table, however the steps   *)
(* of the two runs are ordered.                                            *)
C11_Determinism ==
    (BothReturned /\ SameInputs) =>
        /\ schedule = peer.schedule
        /\ Z = peer.Z
        /\ j = peer.j
        /\ table = peer.table

C11_Witness ==
    /\ BothReturned
    /\ SameInputs
    /\ N = MaxPairN
    /\ j[N] = N
    /\ schedule[N - 1] > 0

(* C16: when the steps of two objects are interleaved in any order, each   *)
(* object ends with exactly the Z, j, table and schedule it produces when  *)
(* it runs alone.                                                          *)
C16_NoInterference ==
    (pc = "returned" /\ computed) =>
        /\ Z = ZAlone
        /\ j = JAlone
        /\ table = TableAlone
        /\ schedule = ScheduleAlone

C16_Witness ==
    /\ BothReturned
    /\ ~SameInputs
    /\ N < peer.N
    /\ Z[N] # peer.Z[N]

(* C21: the inputs are never modified: no step of compute_optimal_schedule *)
(* or get_production_schedule changes the demand sequence, the setup cost  *)
(* or the holding cost rate given at construction.                         *)
C21_InputsImmutable ==
    [][/\ demand' = demand
       /\ setup_cost' = setup_cost
       /\ holding_cost' = holding_cost
       /\ N' = N]_vars

C21_Witness ==
    /\ pc = "returned"
    /\ computed
    /\ N = MaxN
    /\ Len(visited) = 2
    /\ demand[0] # demand[N - 1]

(* C22: on a valid input whose j was produced by compute_optimal_schedule, *)
(* the loop variable of the backward walk strictly decreases at every      *)
(* iteration and never becomes negative, the loop makes at most N          *)
(* iterations, and it is left with t = 0: a walk that was started returns. *)
C22_WalkVariant ==
    (pc = "while" /\ computed /\ ValidInput) =>
        /\ wt \in 0..N
        /\ Len(visited) <= N - wt
        /\ wt > 0 => (j[wt] - 1 < wt /\ j[wt] - 1 >= 0)

C22_WalkStep ==
    (pc = "while" /\ computed /\ ValidInput) =>
        \/ (wt > 0 /\ pc' = "while" /\ wt' < wt /\ wt' >= 0
                   /\ Len(visited') = Len(visited) + 1)
        \/ (wt = 0 /\ pc' = "returned" /\ wt' = 0)

C22_WalkTerminates ==
    /\ []C22_WalkVariant
    /\ [][C22_WalkStep]_vars
    /\ []((AfterGet) => (wt = 0 /\ Len(visited) <= N))
    /\ ((pc = "while" /\ computed /\ ValidInput) ~> (pc = "returned"))

C22_Witness ==
    /\ AfterGet
    /\ N = MaxN
    /\ Len(visited) = N
    /\ wt = 0

(* Period-by-period simulation of a schedule: the stock on hand at the end *)
(* of period p (1-indexed) and the sum of the stock over periods p..N.     *)
EndInventory(p) == SumRange(schedule, 0, p) - SumRange(demand, 0, p)

RECURSIVE InventorySum(_)
InventorySum(p) == IF p > N THEN 0 ELSE EndInventory(p) + InventorySum(p + 1)

PositiveOrders == Cardinality({ p \in 0..(N - 1) : schedule[p] > 0 })

(* C25 as stated: Z[N] is the cost of the returned schedule re-evaluated   *)
(* by simulation, S per period with a positive order quantity plus H per   *)
(* unit of end-of-period inventory.                                        *)
C25_Original ==
    AfterGet =>
        Z[N] = setup_cost * PositiveOrders + holding_cost * InventorySum(1)

(* C25, amended: Z[N] is S times the number of orders of the backward walk *)
(* (one per visited interval, an order of quantity 0 included) plus H      *)
(* times the sum of end-of-period inventory of the returned schedule; it   *)
(* is the cost counting only positive quantities whenever every visited    *)
(* interval has positive demand.                                           *)
C25_CostMatchesSchedule ==
    AfterGet =>
        /\ Z[N] = setup_cost * Len(visited) + holding_cost * InventorySum(1)
        /\ (\A i \in 1..Len(visited) : schedule[visited[i][1] - 1] > 0) =>
              Z[N] = setup_cost * PositiveOrders + holding_cost * InventorySum(1)

(* An order of quantity 0 is charged a setup.                              *)
C25_Witness ==
    /\ AfterGet
    /\ setup_cost > 0
    /\ holding_cost > 0
    /\ Len(visited) = 2
    /\ PositiveOrders = 1
    /\ InventorySum(1) > 0

(* C26: in the returned schedule the cumulative quantity over periods 1..p *)
(* is at least the cumulative demand over 1..p for every p in 1..N, with   *)
(* equality at the last period of every interval of the backward walk.     *)
C26_NoBacklog ==
    AfterGet =>
        /\ \A p \in 1..N : EndInventory(p) >= 0
        /\ \A i \in 1..Len(visited) : EndInventory(visited[i][2]) = 0
        /\ \A i \in 1..Len(visited) : EndInventory(visited[i][1] - 1) = 0

C26_Witness ==
    /\ AfterGet
    /\ N = MaxN
    /\ Len(visited) = 2
    /\ \E p \in 1..N : EndInventory(p) > 0

(* C27: on a valid input the predecessor pointer is non-decreasing in the  *)
(* horizon: j[t] <= j[t+1] for every t in 1..N-1.                          *)
C27_HorizonMonotone ==
    AfterCompute => \A tt \in 1..(N - 1) : j[tt] <= j[tt + 1]

C27_Witness ==
    /\ AfterCompute
    /\ N = MaxN
    /\ j[1] < j[2]
    /\ j[2] < j[N]

(* C28: Z[t] <= Z[t-1] + S for every t in 1..N, hence S <= Z[t] <= t * S.  *)
C28_OneSetupPerPeriod ==
    AfterCompute =>
        \A tt \in 1..N :
            /\ Z[tt] <= Z[tt - 1] + setup_cost
            /\ setup_cost <= Z[tt]
            /\ Z[tt] <= tt * setup_cost

C28_Witness ==
    /\ AfterCompute
    /\ N = MaxN
    /\ setup_cost > 0
    /\ Z[N] < Z[N - 1] + setup_cost
    /\ Z[N] > Z[N - 1]

(* A step of get_production_schedule: its call, an iteration, its return.  *)
InGet == pc = "while" \/ pc' = "while"

(* C29: get_production_schedule is read-only and repeatable: none of its   *)
(* steps changes Z, j, the table or the demand, and every call made after  *)
(* compute_optimal_schedule, the first as any later one, returns the same  *)
(* schedule, the one determined by the inputs.                             *)
C29_GetStepFrame ==
    InGet => /\ Z' = Z
             /\ j' = j
             /\ table' = table
             /\ demand' = demand

C29_GetReadOnly ==
    /\ [][C29_GetStepFrame]_vars
    /\ []((pc = "returned" /\ computed) => schedule = ScheduleAlone)

(* A call made after compute_optimal_schedule, between two iterations.     *)
C29_Witness ==
    /\ pc = "while"
    /\ computed
    /\ N = MaxN
    /\ Len(visited) = 1
    /\ wt > 0
    /\ j[N] = N
    /\ demand[0] > 0

(* C30: compute_optimal_schedule is idempotent on one instance: every run, *)
(* the first as one started on arrays a previous run has populated (j is   *)
(* not reset), returns with the same Z, j and table, those determined by   *)
(* the inputs.                                                             *)
C30_ReturnStep ==
    (pc = "for_t" /\ t > N /\ computed) =>
        /\ Z' = Z /\ j' = j /\ table' = table

C30_Idempotent ==
    /\ [](pc = "computed" => (Z = ZAlone /\ j = JAlone /\ table = TableAlone))
    /\ [][C30_ReturnStep]_vars

(* A second run in progress whose j[t] differs, for now, from the first    *)
(* run's final value.                                                      *)
C30_Witness ==
    /\ computed
    /\ pc = "for_k"
    /\ t = N
    /\ k = 2
    /\ j[t] = 1
    /\ JAlone[t] = N
    /\ N = MaxN

(* ------------- the inner loop scanned in an arbitrary order ------------ *)
(* The body of compute_optimal_schedule with the candidates k of one       *)
(* ending period t taken in any order instead of range(1, t + 1).          *)
(* for t in range(1, N + 1): min_cost = float('inf'); all of 1..t pending. *)
ForTAny ==
    /\ pc = "for_t"
    /\ t <= N
    /\ min_cost' = Inf
    /\ pending' = 1..t
    /\ pc' = "for_k"
    /\ UNCHANGED <<peer, main, fields, Z, j, table, t, k, schedule, wt, visited, computed>>

(* The loop body of lines 24-28 for one pending candidate.                 *)
ForKAny ==
    /\ pc = "for_k"
    /\ \E kk \in pending :
          /\ k' = kk
          /\ pending' = pending \ {kk}
          /\ LET cost == Cost(kk, t)
             IN  /\ table' = [table EXCEPT ![<<kk - 1, t - 1>>] = cost]
                 /\ IF IsLower(cost, min_cost)
                    THEN /\ min_cost' = cost
                         /\ j' = [j EXCEPT ![t] = kk]
                    ELSE UNCHANGED <<min_cost, j>>
    /\ UNCHANGED <<peer, main, fields, Z, pc, t, schedule, wt, visited, computed>>

(* All candidates evaluated: self.Z[t] = min_cost, next t.                 *)
ForKExitAnyLastMut ==
    /\ pc = "for_k"
    /\ pending = {}
    /\ Z' = [Z EXCEPT ![t] = table[<<k - 1, t - 1>>]]
    /\ t' = t + 1
    /\ pc' = "for_t"
    /\ UNCHANGED <<peer, pending, main, fields, j, table, k, min_cost, schedule, wt, visited, computed>>

ForKExitAny ==
    /\ pc = "for_k"
    /\ pending = {}
    /\ Z' = [Z EXCEPT ![t] = min_cost]
    /\ t' = t + 1
    /\ pc' = "for_t"
    /\ UNCHANGED <<peer, pending, main, fields, j, table, k, min_cost, schedule, wt, visited, computed>>

(* One run of compute_optimal_schedule on a valid input, any scan order.   *)
InitAny == Init /\ ValidInput

NextAny ==
    \/ (pc = "idle" /\ ComputeCall)
    \/ ForTAny
    \/ ForKAny
    \/ ForKExitAny
    \/ ComputeReturn

SpecAnyOrder == InitAny /\ [][NextAny]_vars

(* The candidate starts of ending period tt whose cost is the minimum.     *)
Minimisers(tt) == { kk \in 1..tt : CostAlone(kk, tt) = ZAlone[tt] }

(* C23: for a fixed ending period t the stored cost(k, t) values and Z[t]  *)
(* are the same whatever the order in which the candidates k in 1..t are   *)
(* evaluated (they are those of the increasing scan); j[t] is always a     *)
(* minimiser, and differs from the increasing scan's j[t] only when two    *)
(* candidates tie at the minimum.                                          *)
C23_ScanOrderIndependent ==
    pc = "computed" =>
        /\ Z = ZAlone
        /\ table = TableAlone
        /\ \A tt \in 1..N :
              /\ j[tt] \in Minimisers(tt)
              /\ j[tt] # JAlone[tt] => Cardinality(Minimisers(tt)) >= 2

(* A scan order that reports another, equally cheap, start.                *)
C23_Witness ==
    /\ pc = "computed"
    /\ N = MaxN
    /\ j[N] # JAlone[N]
    /\ j[N] > 1
    /\ holding_cost > 0
    /\ demand[N - 1] > 0

(* ---------------------- the entry point main --------------------------- *)
(* main of Assignment3_Problem1.py: num_periods, demand, setup_cost and    *)
(* holding_cost have been read (lines 86-89); no object exists yet, so the *)
(* object's variables hold no value ("unborn").                            *)
InitMain ==
    \E in \in Inputs : \E np \in 0..MaxN :
        /\ main = [pc |-> "validate", num_periods |-> np, demand |-> in[1],
                   setup_cost |-> in[2], holding_cost |-> in[3],
                   printed |-> FALSE]
        /\ demand = << >>
        /\ setup_cost = 0
        /\ holding_cost = 0
        /\ N = 0
        /\ Z = << >>
        /\ j = << >>
        /\ table = << >>
        /\ pc = "unborn"
        /\ t = 0
        /\ k = 0
        /\ min_cost = Inf
        /\ schedule = << >>
        /\ wt = 0
        /\ visited = << >>
        /\ computed = FALSE
        /\ peer = NoPeer
        /\ pending = {}

object == <<demand, setup_cost, holding_cost, N, Z, j, table,
            pc, t, k, min_cost, schedule, wt, visited, computed>>

(* if len(demand) != num_periods: raise ValueError(...)                    *)
MainRaise ==
    /\ main.pc = "validate"
    /\ Cardinality(DOMAIN main.demand) # main.num_periods
    /\ main' = [main EXCEPT !.pc = "raised"]
    /\ UNCHANGED <<object, peer, pending>>

(* model = WagnerWhitin(demand, setup_cost, holding_cost)                  *)
MainConstructMut ==
    /\ main.pc = "validate"
    /\ LET o == Fresh(<<main.demand, main.setup_cost, main.holding_cost>>)
       IN  /\ demand' = o.demand
           /\ setup_cost' = o.setup_cost
           /\ holding_cost' = o.holding_cost
           /\ N' = o.N
           /\ Z' = o.Z
           /\ j' = o.j
           /\ table' = o.table
           /\ pc' = o.pc
           /\ t' = o.t
           /\ k' = o.k
           /\ min_cost' = o.min_cost
           /\ schedule' = o.schedule
           /\ wt' = o.wt
           /\ visited' = o.visited
           /\ computed' = o.computed
    /\ main' = [main EXCEPT !.pc = "constructed"]
    /\ UNCHANGED <<peer, pending>>

MainConstruct ==
    /\ main.pc = "validate"
    /\ Cardinality(DOMAIN main.demand) = main.num_periods
    /\ LET o == Fresh(<<main.demand, main.setup_cost, main.holding_cost>>)
       IN  /\ demand' = o.demand
           /\ setup_cost' = o.setup_cost
           /\ holding_cost' = o.holding_cost
           /\ N' = o.N
           /\ Z' = o.Z
           /\ j' = o.j
           /\ table' = o.table
           /\ pc' = o.pc
           /\ t' = o.t
           /\ k' = o.k
           /\ min_cost' = o.min_cost
           /\ schedule' = o.schedule
           /\ wt' = o.wt
           /\ visited' = o.visited
           /\ computed' = o.computed
    /\ main' = [main EXCEPT !.pc = "constructed"]
    /\ UNCHANGED <<peer, pending>>

(* model.print_table()                                                     *)
MainPrintTable ==
    /\ main.pc = "constructed"
    /\ pc = "computed"
    /\ ~main.printed
    /\ main' = [main EXCEPT !.printed = TRUE]
    /\ UNCHANGED <<object, peer, pending>>

(* print("\nProduction Schedule:") and the lines of the schedule           *)
MainPrintSchedule ==
    /\ main.pc = "constructed"
    /\ pc = "returned"
    /\ main' = [main EXCEPT !.pc = "done"]
    /\ UNCHANGED <<object, peer, pending>>

NextMain ==
    \/ MainRaise
    \/ MainConstruct
    \/ (main.pc = "constructed" /\ pc = "idle" /\ ComputeCall)
    \/ ForTBody
    \/ ForKBody
    \/ ForKExit
    \/ ComputeReturn
    \/ MainPrintTable
    \/ (main.pc = "constructed" /\ main.printed /\ pc = "computed" /\ GetCall)
    \/ WhileBody
    \/ GetReturn
    \/ MainPrintSchedule

SpecMain == InitMain /\ [][NextMain]_vars

Mismatch == Cardinality(DOMAIN main.demand) # main.num_periods

(* C24: when the number of demand entries read differs from the declared   *)
(* number of periods, main raises the ValueError before any WagnerWhitin   *)
(* object is constructed: no table, Z or j exists or is computed and       *)
(* print_table and the schedule lines are never printed.                   *)
C24_NothingBeforeValidation ==
    Mismatch =>
        /\ main.pc \in {"validate", "raised"}
        /\ pc = "unborn"
        /\ Z = << >> /\ j = << >> /\ table = << >>
        /\ ~computed
        /\ ~main.printed

C24_RaiseStep ==
    /\ (Mismatch /\ main.pc = "validate") => main'.pc = "raised"
    /\ main'.pc = "raised" => Mismatch

C24_MainRejectsMismatch ==
    /\ []C24_NothingBeforeValidation
    /\ [][C24_RaiseStep]_vars

C24_Witness ==
    /\ main.pc = "raised"
    /\ main.num_periods = MaxN
    /\ Cardinality(DOMAIN main.demand) = MaxN - 1
    /\ pc = "unborn"

====
